---- MODULE Spec2Model ----
(***************************************************************************)
(* Model of server.js: the RCON command channel (class RconClient) and the *)
(* restart scheduler (scheduleRestart) of one configured server.           *)
(*                                                                         *)
(* Time is counted in milliseconds.  A timer created by setTimeout(f, d)   *)
(* at time t is due at t + d and runs at some time at or after its due     *)
(* time; expired timers run in order of their due time.                    *)
(***************************************************************************)
EXTENDS Integers, Sequences, FiniteSets, TLC

VARIABLES
  pc,             \* "startup": the loop of lines 210-218 runs; "running": event loop
  now,            \* the clock read by new Date(), in ms
  wsState,        \* this.ws.readyState
  callbacks,      \* this.callbacks: identifier -> reply handler
  lastIdentifier, \* this.lastIdentifier
  sent,           \* frames handed to this.ws.send, in order
  log,            \* lines handed to the logger, in order
  invoked,        \* reply handler invocations, in order
  timers,         \* timers created by setTimeout that have not run yet
  cascades,       \* one record per scheduleRestart call, in call order
  crashed,        \* an exception escaped a callback: the process is gone
  nLate,          \* number of times the clock ran past a due timer
  lastFrame,      \* the inbound frame handled last
  nSends,         \* number of sendCommand calls made by callers outside the scheduler
  nRecv,          \* number of inbound frames delivered
  webhook,        \* globalDiscordWebhook: "none" (null), "valid" or "invalid" (new URL throws)
  posted,         \* number of webhook requests handed to https (req.end called)
  inflight,       \* number of webhook requests whose outcome is still open
  cfgTime,        \* an entry of dailyRestartTimesUTC, as its characters
  nextOut,        \* what getNextRestartTime returned for it (ms), -1 before the call
  fmtArg,         \* an argument of formatTime
  fmtOut          \* what formatTime returned for it, "" before the call

hookVars == <<webhook, posted, inflight>>
fnVars == <<cfgTime, nextOut, fmtArg, fmtOut>>

vars == <<pc, now, wsState, callbacks, lastIdentifier, sent, log, invoked,
          timers, cascades, crashed, nLate, lastFrame, nSends, nRecv,
          webhook, posted, inflight, cfgTime, nextOut, fmtArg, fmtOut>>

\* ------------------------------------------------------------------ bounds
MaxArms == 1
MaxSends == 2
MaxRecv == 2
MaxTime == 15000
MaxLate == 1
MaxDay == 2
MaxSeconds == 130

\* event instants offered to scheduleRestart, relative to the arm time (ms)
ArmOffsets == {-1000, 0, 5000, 10001}

\* how late a timer may run, relative to its due time (ms)
Lateness == {0, 1000, 1001}

\* reply handlers callers pass to sendCommand
Handlers == {"h1", "h2"}

\* ------------------------------------------------------- program constants
Threshold == 1000
NoReply == -1

\* variant: the counter is seeded with the sentinel
SeedSentinel == NoReply

\* this.lastIdentifier = 1000
Seed == 1000
RestartDelay == 2000
intervals == <<1800, 1200, 900, 600, 300, 120, 60, 30, 10, 5>>
scheduleName == "Daily restart"
prefix == "[Notification] "

Range(s) == {s[i] : i \in 1..Len(s)}

\* ------------------------------------------------------------- formatTime
\* variant: the seconds after the minutes are always in the plural
formatTimePlural(totalSeconds) ==
  IF totalSeconds >= 60
    THEN LET minutes == totalSeconds \div 60
             seconds == totalSeconds % 60
             minuteStr == IF minutes = 1 THEN "minute" ELSE "minutes"
         IN IF seconds > 0
              THEN ToString(minutes) \o " " \o minuteStr \o " and "
                     \o ToString(seconds) \o " seconds"
              ELSE ToString(minutes) \o " " \o minuteStr
    ELSE IF totalSeconds = 1 THEN "1 second"
         ELSE ToString(totalSeconds) \o " seconds"

formatTime(totalSeconds) ==
  IF totalSeconds >= 60
    THEN LET minutes == totalSeconds \div 60
             seconds == totalSeconds % 60
             minuteStr == IF minutes = 1 THEN "minute" ELSE "minutes"
         IN IF seconds > 0
              THEN LET secondStr == IF seconds = 1 THEN "second" ELSE "seconds"
                   IN ToString(minutes) \o " " \o minuteStr \o " and "
                        \o ToString(seconds) \o " " \o secondStr
              ELSE ToString(minutes) \o " " \o minuteStr
    ELSE IF totalSeconds = 1 THEN "1 second"
         ELSE ToString(totalSeconds) \o " seconds"

\* -------------------------------------------------------------- log lines
Line(level, text) == [level |-> level, text |-> text]

\* ------------------------------------------------------------ sendCommand
\* The effect of sendCommand(cmd, callback) on the channel, as a record of
\* the new values.  hasCb: a callback was passed; cb: that callback;
\* cas: the cascade the call was made for (0: a caller outside the
\* scheduler).  cas and withCb are kept with the frame for bookkeeping
\* only: the frame on the wire is {Identifier, Message, Name}.
\* variant: the guard lets every state through
NotOpenNever(readyState) == FALSE

\* this.ws.readyState !== WebSocket.OPEN
NotOpen(readyState) == readyState # "OPEN"

\* variant: the counter starts over instead of counting on
IncrementedReset(last) == Seed + 1

\* this.lastIdentifier++
Incremented(last) == last + 1

sendCommand(ch, cmd, hasCb, cb, cas) ==
  IF NotOpen(ch.wsState)
    THEN [ch EXCEPT !.log = Append(@, Line("error", "WebSocket not open. Cannot send: " \o cmd))]
    ELSE LET identifier == IF hasCb THEN Incremented(ch.lastIdentifier) ELSE NoReply
             packet == [Identifier |-> identifier, Message |-> cmd,
                        Name |-> "NodeRcon", cas |-> cas, withCb |-> hasCb]
         IN [ch EXCEPT
               !.lastIdentifier = IF hasCb THEN Incremented(@) ELSE @,
               !.callbacks = IF hasCb
                               THEN [i \in DOMAIN @ \cup {identifier} |->
                                       IF i = identifier THEN cb ELSE @[i]]
                               ELSE @,
               !.sent = Append(@, packet),
               !.log = Append(@, Line("info", "Sent command: " \o cmd))]

\* variant: the announcement asks for its reply
sendAnnouncementWithReply(ch, message, cas) ==
  sendCommand(ch, "say " \o prefix \o message, TRUE, "h1", cas)

sendAnnouncement(ch, message, cas) ==
  sendCommand(ch, "say " \o prefix \o message, FALSE, "none", cas)

saveServer(ch, cas) == sendCommand(ch, "server.save", FALSE, "none", cas)

restartServer(ch, cas) == sendCommand(ch, "restart 0", FALSE, "none", cas)

\* the channel as a record, and its write-back
Chan == [wsState |-> wsState, callbacks |-> callbacks,
         lastIdentifier |-> lastIdentifier, sent |-> sent, log |-> log]

SetChan(ch) ==
  /\ wsState' = ch.wsState
  /\ callbacks' = ch.callbacks
  /\ lastIdentifier' = ch.lastIdentifier
  /\ sent' = ch.sent
  /\ log' = ch.log

\* ------------------------------------------------------------------- Init
\* the state after new RconClient(serverConfig), before the loop over
\* dailyRestartTimesUTC
Boot ==
  /\ pc = "startup"
  /\ wsState = "CONNECTING"
  /\ callbacks = [i \in {} |-> "none"]
  /\ lastIdentifier = Seed
  /\ sent = <<>>
  /\ log = <<Line("info", "Connecting to RCON")>>
  /\ invoked = <<>>
  /\ timers = {}
  /\ cascades = <<>>
  /\ crashed = FALSE
  /\ nLate = 0
  /\ lastFrame = [kind |-> "none", hasId |-> FALSE, id |-> 0]
  /\ nSends = 0
  /\ nRecv = 0
  /\ posted = 0
  /\ inflight = 0

\* no function call is under observation
NoCall ==
  /\ cfgTime = <<>>
  /\ nextOut = -1
  /\ fmtArg = 0
  /\ fmtOut = ""

\* config.discordWebhook is left empty, as in the documented config.json
Init ==
  /\ Boot
  /\ NoCall
  /\ now = 0
  /\ webhook = "none"

\* ------------------------------------------------------ transport events
Running == pc = "running" /\ ~crashed

\* Bookkeeping for each cascade: winOpen tells whether the transport was
\* open when the clock reached the event instant and has stayed open for
\* the RestartDelay ms after it.  The transport stops being open now:
NoteClosed ==
  [c \in DOMAIN cascades |->
     IF wsState = "OPEN" /\ now <= cascades[c].eventTime + RestartDelay
       THEN [cascades[c] EXCEPT !.winOpen = FALSE]
       ELSE cascades[c]]

\* the clock moves from now to t
NoteClock(t) ==
  [c \in DOMAIN cascades |->
     IF now < cascades[c].eventTime /\ cascades[c].eventTime <= t
       THEN [cascades[c] EXCEPT !.winOpen = (wsState = "OPEN")]
       ELSE cascades[c]]

WsOpen ==
  /\ Running
  /\ wsState = "CONNECTING"
  /\ wsState' = "OPEN"
  /\ log' = Append(log, Line("info", "Connected"))
  /\ UNCHANGED <<pc, now, callbacks, lastIdentifier, sent, invoked, timers,
                 cascades, crashed, nLate, lastFrame, nSends, nRecv>>
  /\ UNCHANGED <<hookVars, fnVars>>

\* The transport reports an error: ws has left the open state by the time
\* it emits "error"; the handler only logs.
WsError ==
  /\ Running
  /\ wsState \in {"CONNECTING", "OPEN"}
  /\ wsState' = "CLOSING"
  /\ cascades' = NoteClosed
  /\ log' = Append(log, Line("error", "Connection error"))
  /\ UNCHANGED <<pc, now, callbacks, lastIdentifier, sent, invoked, timers,
                 crashed, nLate, lastFrame, nSends, nRecv>>
  /\ UNCHANGED <<hookVars, fnVars>>

\* variant: the close handler connects again
WsCloseReconnect ==
  /\ Running
  /\ wsState # "CLOSED"
  /\ wsState' = "CONNECTING"
  /\ cascades' = NoteClosed
  /\ log' = Append(log, Line("info", "Connection closed"))
  /\ UNCHANGED <<pc, now, callbacks, lastIdentifier, sent, invoked, timers,
                 crashed, nLate, lastFrame, nSends, nRecv>>
  /\ UNCHANGED <<hookVars, fnVars>>

WsClose ==
  /\ Running
  /\ wsState # "CLOSED"
  /\ wsState' = "CLOSED"
  /\ cascades' = NoteClosed
  /\ log' = Append(log, Line("info", "Connection closed"))
  /\ UNCHANGED <<pc, now, callbacks, lastIdentifier, sent, invoked, timers,
                 crashed, nLate, lastFrame, nSends, nRecv>>
  /\ UNCHANGED <<hookVars, fnVars>>

\* ------------------------------------------------------- inbound frames
\* What JSON.parse makes of the received data:
\*   "garbage": not JSON, parse throws;  "null": the JSON value null;
\*   "prim": a number, string or boolean;  "obj": an object, with or
\*   without an Identifier member.
FrameIds == {NoReply, 0, Threshold} \cup (Threshold + 1 .. Threshold + MaxSends + 1)

Frames ==
  {[kind |-> k, hasId |-> FALSE, id |-> 0] : k \in {"garbage", "null", "prim", "obj"}}
    \cup {[kind |-> "obj", hasId |-> TRUE, id |-> n] : n \in FrameIds}

\* JSON.parse(data) throws
ParseFails(data) == data.kind = "garbage"

\* reading message.Identifier throws: message is null
ReadThrows(message) == message.kind = "null"

\* message.Identifier && message.Identifier > 1000
Correlated(message) == message.hasId /\ message.id # 0 /\ message.id > Threshold

\* variant: the nearest pending key at or below the identifier matches
LookupLoose(cbs, message) == {i \in DOMAIN cbs : i <= message.id}

\* const cb = this.callbacks[message.Identifier]: the keys that match
Lookup(cbs, message) == {i \in DOMAIN cbs : i = message.id}

\* variant: the entry stays
RemoveNothing(cbs, id) == cbs

\* delete this.callbacks[id]
Remove(cbs, id) == [i \in DOMAIN cbs \ {id} |-> cbs[i]]

OnMessage(data) ==
  /\ Running
  /\ wsState = "OPEN"
  /\ nRecv < MaxRecv
  /\ nRecv' = nRecv + 1
  /\ lastFrame' = data
  /\ IF ParseFails(data)
       THEN \* logged, return
            /\ log' = Append(log, Line("error", "Error parsing message"))
            /\ UNCHANGED <<wsState, callbacks, invoked, timers, crashed, cascades>>
       ELSE IF ReadThrows(data)
         THEN \* a TypeError leaves the listener: nothing catches it and
              \* the process ends, with its socket and its timers
              /\ crashed' = TRUE
              /\ wsState' = "CLOSED"
              /\ cascades' = NoteClosed
              /\ timers' = {}
              /\ UNCHANGED <<callbacks, invoked, log>>
         ELSE IF Correlated(data) /\ Lookup(callbacks, data) # {}
           THEN LET key == CHOOSE i \in Lookup(callbacks, data) : TRUE
                IN /\ invoked' = Append(invoked, [handler |-> callbacks[key],
                                                  message |-> data])
                   /\ callbacks' = Remove(callbacks, key)
                /\ UNCHANGED <<wsState, log, timers, crashed, cascades>>
           ELSE UNCHANGED <<wsState, callbacks, invoked, log, timers, crashed,
                            cascades>>
  /\ UNCHANGED <<pc, now, lastIdentifier, sent, nLate, nSends>>
  /\ UNCHANGED <<hookVars, fnVars>>

\* ------------------------------------------- sendCommand by other callers
DirectSend(hasCb, cb) ==
  /\ Running
  /\ nSends < MaxSends
  /\ nSends' = nSends + 1
  /\ SetChan(sendCommand(Chan, "status", hasCb, cb, 0))
  /\ UNCHANGED <<pc, now, invoked, timers, cascades, crashed, nLate, lastFrame,
                 nRecv>>
  /\ UNCHANGED <<hookVars, fnVars>>

\* ---------------------------------------------------------- scheduleRestart
\* variant: an event exactly interval seconds away arms the timer too
LeadArmedGeq(msUntilRestart, interval) == msUntilRestart >= interval * 1000

\* msUntilRestart / 1000 > interval
LeadArmed(msUntilRestart, interval) == msUntilRestart > interval * 1000

\* const delay = msUntilRestart - interval * 1000
Delay(msUntilRestart, interval) == msUntilRestart - interval * 1000

\* setTimeout(f, delay) called at time t
DueAt(t, delay) == t + delay

AnnounceTimers(c, msUntilRestart, t) ==
  {[cas |-> c, kind |-> "announce", interval |-> intervals[i],
    due |-> DueAt(t, Delay(msUntilRestart, intervals[i]))] :
     i \in {j \in 1..Len(intervals) : LeadArmed(msUntilRestart, intervals[j])}}

\* variant: the delay argument of the terminal setTimeout is left out
TerminalTimerNoDelay(c, msUntilRestart, t) ==
  [cas |-> c, kind |-> "terminal", interval |-> 0, due |-> DueAt(t, 0)]

TerminalTimer(c, msUntilRestart, t) ==
  [cas |-> c, kind |-> "terminal", interval |-> 0, due |-> DueAt(t, msUntilRestart)]

\* variant: the restart follows the save without the delay
RestartTimerNoDelay(c, t) ==
  [cas |-> c, kind |-> "restart", interval |-> 0, due |-> DueAt(t, 0)]

RestartTimer(c, t) ==
  [cas |-> c, kind |-> "restart", interval |-> 0, due |-> DueAt(t, RestartDelay)]

\* variant: the remaining time must exceed interval - 1
StillDueStrict(eventTime, t, interval) == eventTime - t > (interval - 1) * 1000

\* remaining >= interval - 1, remaining = (eventTime - new Date()) / 1000
StillDue(eventTime, t, interval) == eventTime - t >= (interval - 1) * 1000

\* variant: an event at the very arm time counts as still to come
AlreadyPassedStrict(msUntilRestart) == msUntilRestart < 0

\* if (msUntilRestart <= 0)
AlreadyPassed(msUntilRestart) == msUntilRestart <= 0

NewCascade(eventTime) ==
  [eventTime |-> eventTime, armedAt |-> now, winOpen |-> FALSE,
   termFired |-> FALSE, termAt |-> -1, termOpen |-> FALSE,
   restartFired |-> FALSE, restartOpen |-> FALSE]

scheduleRestart(eventTime) ==
  LET msUntilRestart == eventTime - now
      c == Len(cascades) + 1
  IN /\ cascades' = Append(cascades, NewCascade(eventTime))
     /\ IF AlreadyPassed(msUntilRestart)
          THEN /\ log' = Append(log, Line("info", "Event time already passed."))
               /\ timers' = timers
          ELSE /\ log' = Append(log, Line("info",
                            "Scheduling " \o scheduleName \o " (in "
                              \o ToString(msUntilRestart \div 1000) \o " seconds)"))
               /\ timers' = timers \cup AnnounceTimers(c, msUntilRestart, now)
                                   \cup {TerminalTimer(c, msUntilRestart, now)}

\* one round of the loop over dailyRestartTimesUTC
Arm(eventTime) ==
  /\ pc = "startup"
  /\ Len(cascades) < MaxArms
  /\ scheduleRestart(eventTime)
  /\ UNCHANGED <<pc, now, wsState, callbacks, lastIdentifier, sent, invoked,
                 crashed, nLate, lastFrame, nSends, nRecv>>
  /\ UNCHANGED <<hookVars, fnVars>>

\* the loop is over: control returns to the event loop
StartupDone ==
  /\ pc = "startup"
  /\ pc' = "running"
  /\ UNCHANGED <<now, wsState, callbacks, lastIdentifier, sent, log, invoked,
                 timers, cascades, crashed, nLate, lastFrame, nSends, nRecv>>
  /\ UNCHANGED <<hookVars, fnVars>>

\* ------------------------------------------------------------------ timers
\* time passes, up to or past the due time of the next pending timer
Tick ==
  /\ Running
  /\ \E t \in timers, late \in Lateness :
       /\ \A u \in timers : t.due <= u.due
       /\ t.due + late > now
       /\ t.due + late <= MaxTime
       /\ late > 0 => nLate < MaxLate
       /\ nLate' = IF late > 0 THEN nLate + 1 ELSE nLate
       /\ now' = t.due + late
  /\ cascades' = NoteClock(now')
  /\ UNCHANGED <<pc, wsState, callbacks, lastIdentifier, sent, log, invoked,
                 timers, crashed, lastFrame, nSends, nRecv>>
  /\ UNCHANGED <<hookVars, fnVars>>

\* the timer the event loop runs next
Expired(t) ==
  /\ t \in timers
  /\ t.due <= now
  /\ \A u \in timers : t.due <= u.due

FireAnnounce(t) ==
  /\ Running
  /\ Expired(t)
  /\ t.kind = "announce"
  /\ timers' = timers \ {t}
  /\ IF StillDue(cascades[t.cas].eventTime, now, t.interval)
       THEN LET text == scheduleName \o " in " \o formatTime(t.interval)
                ch == sendAnnouncement(Chan, text, t.cas)
            IN SetChan([ch EXCEPT !.log = Append(@, Line("info", "Announced: " \o text))])
       ELSE UNCHANGED <<wsState, callbacks, lastIdentifier, sent, log>>
  /\ UNCHANGED <<pc, now, invoked, cascades, crashed, nLate, lastFrame, nSends, nRecv>>
  /\ UNCHANGED <<hookVars, fnVars>>

\* ------------------------------------------------ sendDiscordNotification
\* the values config.discordWebhook || null can take
Webhooks == {"none", "valid", "invalid"}

\* new URL(webhookUrl) throws
UrlThrows(webhookUrl) == webhookUrl = "invalid"

\* variant: the exception of new URL is not caught
EscapesUncaught(webhookUrl) == UrlThrows(webhookUrl)

\* try { ... } catch (error) { logger.error(...) }: what is thrown inside
\* the function stays inside it
Escapes(webhookUrl) == FALSE

\* The effect of sendDiscordNotification(webhookUrl, ...) on the record d
\* of the log and the request counters.
sendDiscordNotification(d, webhookUrl) ==
  IF UrlThrows(webhookUrl)
    THEN [d EXCEPT !.log = Append(@, Line("error", "Failed to send Discord notification"))]
    ELSE [d EXCEPT !.posted = @ + 1,
                   !.inflight = @ + 1,
                   !.log = Append(@, Line("info", "Discord notification sent."))]

\* the request emits "error": the listener of line 156 logs it
WebhookError ==
  /\ ~crashed
  /\ inflight > 0
  /\ inflight' = inflight - 1
  /\ log' = Append(log, Line("error", "Discord webhook error"))
  /\ UNCHANGED <<pc, now, wsState, callbacks, lastIdentifier, sent, invoked,
                 timers, cascades, crashed, nLate, lastFrame, nSends, nRecv,
                 webhook, posted, fnVars>>

\* the response arrives: its data is dropped
WebhookDone ==
  /\ ~crashed
  /\ inflight > 0
  /\ inflight' = inflight - 1
  /\ UNCHANGED <<pc, now, wsState, callbacks, lastIdentifier, sent, log, invoked,
                 timers, cascades, crashed, nLate, lastFrame, nSends, nRecv,
                 webhook, posted, fnVars>>

FireTerminal(t) ==
  /\ Running
  /\ Expired(t)
  /\ t.kind = "terminal"
  /\ LET d0 == [log |-> log, posted |-> posted, inflight |-> inflight]
         d1 == IF webhook # "none" THEN sendDiscordNotification(d0, webhook) ELSE d0
     IN IF webhook # "none" /\ Escapes(webhook)
          THEN \* the exception leaves the timer callback: the process ends
               /\ crashed' = TRUE
               /\ wsState' = "CLOSED"
               /\ cascades' = NoteClosed
               /\ timers' = {}
               /\ UNCHANGED <<callbacks, lastIdentifier, sent, log, posted, inflight>>
          ELSE LET ch0 == [Chan EXCEPT !.log = d1.log]
                   ch1 == sendAnnouncement(ch0, "Restarting now...", t.cas)
                   ch2 == saveServer(ch1, t.cas)
               IN /\ SetChan([ch2 EXCEPT !.log = Append(@, Line("info", "Executed restart"))])
                  /\ posted' = d1.posted
                  /\ inflight' = d1.inflight
                  /\ timers' = (timers \ {t}) \cup {RestartTimer(t.cas, now)}
                  /\ cascades' = [cascades EXCEPT ![t.cas].termFired = TRUE,
                                                   ![t.cas].termAt = now,
                                                   ![t.cas].termOpen = (wsState = "OPEN")]
                  /\ crashed' = crashed
  /\ webhook' = webhook
  /\ UNCHANGED <<pc, now, invoked, nLate, lastFrame, nSends, nRecv>>
  /\ UNCHANGED fnVars

\* variant: the restart timer repeats (setInterval)
FireRestartRepeat(t) ==
  /\ Running
  /\ Expired(t)
  /\ t.kind = "restart"
  /\ SetChan(restartServer(Chan, t.cas))
  /\ timers' = timers
  /\ cascades' = [cascades EXCEPT ![t.cas].restartFired = TRUE,
                                   ![t.cas].restartOpen = (wsState = "OPEN")]
  /\ UNCHANGED <<pc, now, invoked, crashed, nLate, lastFrame, nSends, nRecv>>
  /\ UNCHANGED <<hookVars, fnVars>>

FireRestart(t) ==
  /\ Running
  /\ Expired(t)
  /\ t.kind = "restart"
  /\ SetChan(restartServer(Chan, t.cas))
  /\ timers' = timers \ {t}
  /\ cascades' = [cascades EXCEPT ![t.cas].restartFired = TRUE,
                                   ![t.cas].restartOpen = (wsState = "OPEN")]
  /\ UNCHANGED <<pc, now, invoked, crashed, nLate, lastFrame, nSends, nRecv>>
  /\ UNCHANGED <<hookVars, fnVars>>

\* ------------------------------------------------------ getNextRestartTime
\* Strings are sequences of one-character strings here, so that split and
\* Number can be computed.
DigitValue ==
  [c \in {"0", "1", "2", "3", "4", "5", "6", "7", "8", "9"} |->
     CASE c = "0" -> 0 [] c = "1" -> 1 [] c = "2" -> 2 [] c = "3" -> 3
       [] c = "4" -> 4 [] c = "5" -> 5 [] c = "6" -> 6 [] c = "7" -> 7
       [] c = "8" -> 8 [] c = "9" -> 9]

\* Number(str), for a string of decimal digits
RECURSIVE Number(_)
Number(str) ==
  IF str = <<>> THEN 0
  ELSE Number(SubSeq(str, 1, Len(str) - 1)) * 10 + DigitValue[str[Len(str)]]

\* the first two elements of str.split(":"), for a string with one colon
Split(str) ==
  LET k == CHOOSE i \in 1..Len(str) : str[i] = ":"
  IN <<SubSeq(str, 1, k - 1), SubSeq(str, k + 1, Len(str))>>

\* 24 * 60 * 60 * 1000
DayMs == 24 * 60 * 60 * 1000

\* variant: the seconds and milliseconds of t are kept
DateUTCKeepSeconds(t, hours, minutes) ==
  (t - (t % DayMs)) + hours * 60 * 60 * 1000 + minutes * 60 * 1000 + (t % 60000)

\* Date.UTC(t.getUTCFullYear(), t.getUTCMonth(), t.getUTCDate(), hours,
\* minutes, 0): the start of t's UTC day plus the time of day
DateUTC(t, hours, minutes) ==
  (t - (t % DayMs)) + hours * 60 * 60 * 1000 + minutes * 60 * 1000

\* variant: an instant equal to now counts as still to come
PassedStrict(next, t) == next < t

\* next <= now
Passed(next, t) == next <= t

\* getNextRestartTime(timeString), the clock reading t
getNextRestartTime(timeString, t) ==
  LET parts == Split(timeString)
      hours == Number(parts[1])
      minutes == Number(parts[2])
      next == DateUTC(t, hours, minutes)
  IN IF Passed(next, t) THEN next + DayMs ELSE next

\* const nextRestart = getNextRestartTime(timeStr)
GetNext ==
  /\ pc = "startup"
  /\ nextOut = -1
  /\ nextOut' = getNextRestartTime(cfgTime, now)
  /\ UNCHANGED <<pc, now, wsState, callbacks, lastIdentifier, sent, log, invoked,
                 timers, cascades, crashed, nLate, lastFrame, nSends, nRecv,
                 hookVars, cfgTime, fmtArg, fmtOut>>

\* a call of formatTime
Format ==
  /\ fmtOut = ""
  /\ fmtOut' = formatTime(fmtArg)
  /\ UNCHANGED <<pc, now, wsState, callbacks, lastIdentifier, sent, log, invoked,
                 timers, cascades, crashed, nLate, lastFrame, nSends, nRecv,
                 hookVars, cfgTime, nextOut, fmtArg>>

\* --------------------------------------------------------- specifications
\* The scheduler on its channel: the startup loop, the transport's life
\* cycle, the clock and the timers.  The only inbound frame is the one
\* that ends the process.
FatalFrames == {f \in Frames : f.kind = "null"}

Next ==
  \/ \E off \in ArmOffsets : Arm(now + off)
  \/ StartupDone
  \/ WsOpen
  \/ WsError
  \/ WsClose
  \/ \E data \in FatalFrames : OnMessage(data)
  \/ Tick
  \/ \E t \in timers : FireAnnounce(t)
  \/ \E t \in timers : FireTerminal(t)
  \/ \E t \in timers : FireRestart(t)

Spec == Init /\ [][Next]_vars

\* the loop over a single configured time, off ms ahead
ArmOne(off) ==
  /\ cascades = <<>>
  /\ Arm(now + off)

\* One configured restart time under every setting of
\* config.discordWebhook, with the outcomes of the webhook requests.
HookInit ==
  /\ Boot
  /\ NoCall
  /\ now = 0
  /\ webhook \in Webhooks

HookNext ==
  \/ \E off \in {5000, 10001} : ArmOne(off)
  \/ StartupDone
  \/ WsOpen
  \/ WsError
  \/ WsClose
  \/ Tick
  \/ \E t \in timers : FireAnnounce(t)
  \/ \E t \in timers : FireTerminal(t)
  \/ \E t \in timers : FireRestart(t)
  \/ WebhookError
  \/ WebhookDone

HookSpec == HookInit /\ [][HookNext]_vars

\* The channel with callers that pass reply handlers and a peer that sends
\* any frame: no restart time is configured.
ChanNext ==
  \/ StartupDone
  \/ WsOpen
  \/ WsError
  \/ WsClose
  \/ \E data \in Frames : OnMessage(data)
  \/ \E cb \in Handlers : DirectSend(TRUE, cb)
  \/ DirectSend(FALSE, "none")

ChanSpec == Init /\ [][ChanNext]_vars

\* The startup loop alone, over event instants around every lead time.
ProbeDeltas == {-1000, -1, 0, 1, 1000}

ProbeOffsets ==
  {intervals[i] * 1000 + d : i \in 1..Len(intervals), d \in ProbeDeltas}
    \cup {-1000, 0, 40000}

ArmNext ==
  \/ \E off \in ProbeOffsets : Arm(now + off)
  \/ StartupDone

ArmSpec == Init /\ [][ArmNext]_vars

\* One configured restart time on a channel that other callers use as
\* well, with and without reply handlers.
SendNext ==
  \/ ArmOne(10001)
  \/ StartupDone
  \/ WsOpen
  \/ WsClose
  \/ Tick
  \/ \E t \in timers : FireAnnounce(t)
  \/ \E t \in timers : FireTerminal(t)
  \/ \E t \in timers : FireRestart(t)
  \/ \E cb \in Handlers : DirectSend(TRUE, cb)
  \/ DirectSend(FALSE, "none")

SendSpec == Init /\ [][SendNext]_vars

\* getNextRestartTime alone: one call, over configured times of day and
\* clock readings at, just before and just after them.
TimeStrings ==
  {<<"0", "0", ":", "0", "0">>, <<"0", "0", ":", "0", "1">>,
   <<"0", "6", ":", "3", "0">>, <<"0", "9", ":", "0", "5">>,
   <<"1", "2", ":", "0", "0">>, <<"2", "3", ":", "5", "9">>}

TimesOfDay == {0, 60000, 23400000, 32700000, 43200000, 86340000, 86399999}

Instants ==
  {d * DayMs + tod + delta :
     d \in 1..MaxDay, tod \in TimesOfDay, delta \in {-1, 0, 1}}

NextTimeInit ==
  /\ Boot
  /\ webhook = "none"
  /\ fmtArg = 0
  /\ fmtOut = ""
  /\ now \in Instants
  /\ cfgTime \in TimeStrings
  /\ nextOut = -1

NextTimeNext == GetNext

NextTimeSpec == NextTimeInit /\ [][NextTimeNext]_vars

\* formatTime alone: one call, over the small numbers of seconds and the
\* lead times.
Seconds == (0 .. MaxSeconds) \cup Range(intervals)

FormatInit ==
  /\ Boot
  /\ webhook = "none"
  /\ now = 0
  /\ cfgTime = <<>>
  /\ nextOut = -1
  /\ fmtArg \in Seconds
  /\ fmtOut = ""

FormatNext == Format

FormatSpec == FormatInit /\ [][FormatNext]_vars

\* The scheduler with the event loop's guarantees: the clock moves on and
\* an expired timer is run.
FireTimer ==
  \E t \in timers : FireAnnounce(t) \/ FireTerminal(t) \/ FireRestart(t)

LiveSpec == Spec /\ WF_vars(Tick) /\ WF_vars(FireTimer)

\* ================================================================ claims
\* the frames sent for cascade c, in order
CasFrames(c) == SelectSeq(sent, LAMBDA f : f.cas = c)

\* the cascade was armed with its event instant still to come
Future(c) == cascades[c].eventTime > cascades[c].armedAt

\* the frame that announces lead time L
AnnText(L) == "say [Notification] Daily restart in " \o formatTime(L)

IsAnn(f) == \E i \in 1..Len(intervals) : f.Message = AnnText(intervals[i])

LeadOf(f) == CHOOSE L \in Range(intervals) : f.Message = AnnText(L)

IsTerminalFrame(f) ==
  f.Message \in {"say [Notification] Restarting now...", "server.save", "restart 0"}

\* "Restarting now...", then the save command, then the restart command
TermSeqSent(c) ==
  LET fs == CasFrames(c)
  IN \E i, j, k \in 1..Len(fs) :
       /\ i < j /\ j < k
       /\ fs[i].Message = "say [Notification] Restarting now..."
       /\ fs[j].Message = "server.save"
       /\ fs[k].Message = "restart 0"

\* ---------------------------------------------------------------------- C1
\* C1, as stated: whenever the transport is open from the event instant
\* until 2000 ms after it, a cascade armed for a future instant transmits
\* "Restarting now...", the save command and the restart command, in that
\* order - here for a cascade whose delayed restart timer has run.
C1_Original ==
  \A c \in DOMAIN cascades :
    (Future(c) /\ cascades[c].restartFired /\ cascades[c].winOpen)
      => TermSeqSent(c)

C1_Sequence ==
  \A c \in DOMAIN cascades :
    (Future(c) /\ cascades[c].restartFired
       /\ cascades[c].termOpen /\ cascades[c].restartOpen)
      => /\ TermSeqSent(c)
         /\ LET fs == CasFrames(c)
            IN \A k \in 1..Len(fs) :
                 fs[k].Message = "restart 0"
                   => \E j \in 1..k-1 : fs[j].Message = "server.save"

C1_Delay ==
  \A c \in DOMAIN cascades :
    (~cascades[c].restartFired /\ cascades'[c].restartFired)
      => /\ cascades[c].termFired
         /\ now >= cascades[c].termAt + 2000
         /\ cascades[c].termAt >= cascades[c].eventTime

C1_Armed(c) ==
  c \in DOMAIN cascades /\ Future(c) /\ pc = "running" /\ wsState = "OPEN"

C1_Over(c) ==
  (c \in DOMAIN cascades /\ cascades[c].restartFired) \/ wsState # "OPEN"

\* C1, amended: a cascade armed for a future instant runs its terminal
\* timer at or after the event instant and its restart timer at least
\* 2000 ms after that; if the transport is open at both of these moments,
\* "Restarting now...", the save command and the restart command are
\* transmitted in that order, the restart never before the save; and while
\* the transport stays open the restart timer does run eventually.
C1_Amended ==
  /\ []C1_Sequence
  /\ [][C1_Delay]_vars
  /\ \A c \in 1..MaxArms : C1_Armed(c) ~> C1_Over(c)

\* the terminal timer ran late, the transport open throughout
C1_Witness ==
  \E c \in DOMAIN cascades :
    /\ Future(c) /\ cascades[c].restartFired
    /\ cascades[c].termOpen /\ cascades[c].restartOpen
    /\ cascades[c].termAt > cascades[c].eventTime
    /\ TermSeqSent(c)

\* ---------------------------------------------------------------------- C2
C2_Order ==
  \A c \in DOMAIN cascades :
    LET fs == CasFrames(c)
    IN \A i, j \in 1..Len(fs) :
         i < j =>
           /\ (IsAnn(fs[i]) /\ IsAnn(fs[j])) => LeadOf(fs[i]) > LeadOf(fs[j])
           /\ IsTerminalFrame(fs[i]) => ~IsAnn(fs[j])

C2_BeforeTerminal ==
  (Len(sent') = Len(sent) + 1 /\ IsAnn(sent'[Len(sent')]))
    => ~cascades[sent'[Len(sent')].cas].termFired

\* C2: within one cascade the countdown announcements are transmitted in
\* strictly decreasing order of lead time, each lead time at most once, and
\* none of them once the cascade's terminal action has begun.
C2_Announcements == []C2_Order /\ [][C2_BeforeTerminal]_vars

\* two announcements and then the terminal announcement of one cascade
C2_Witness ==
  \E c \in DOMAIN cascades :
    LET fs == CasFrames(c)
    IN \E i, j, k \in 1..Len(fs) :
         /\ i < j /\ j < k
         /\ IsAnn(fs[i]) /\ IsAnn(fs[j])
         /\ fs[k].Message = "say [Notification] Restarting now..."

\* ---------------------------------------------------------------------- C3
C3_Arm ==
  (Len(cascades') = Len(cascades) + 1
     /\ cascades'[Len(cascades')].eventTime <= now)
    => /\ timers' = timers
       /\ sent' = sent
       /\ log' = Append(log, [level |-> "info",
                              text |-> "Event time already passed."])

C3_Later ==
  \A c \in DOMAIN cascades :
    ~Future(c) =>
      /\ \A t \in timers : t.cas # c
      /\ \A i \in 1..Len(sent) : sent[i].cas # c
      /\ ~cascades[c].termFired /\ ~cascades[c].restartFired

\* C3: arming a cascade whose event instant is at or before the current
\* time creates no timer, logs the single line "Event time already
\* passed." and transmits nothing, then or later.
C3_PastEvent == [][C3_Arm]_vars /\ []C3_Later

\* a cascade armed for a past instant, the event loop running, the
\* transport open
C3_Witness ==
  /\ pc = "running"
  /\ wsState = "OPEN"
  /\ \E c \in DOMAIN cascades : ~Future(c)

\* ---------------------------------------------------------------------- C4
\* C4: for a cascade armed for a future instant, the timer of lead time L
\* exists exactly if the event was more than L seconds away at arm time,
\* there is one such timer at most, and it is due L seconds before the
\* event instant; an event 40 seconds away gets the timers of 30, 10 and 5
\* only.  (Stated for the startup loop, where no timer has run yet.)
C4_LeadTimers ==
  \A c \in DOMAIN cascades :
    Future(c) =>
      LET ms == cascades[c].eventTime - cascades[c].armedAt
          mine == {t \in timers : t.cas = c /\ t.kind = "announce"}
      IN /\ \A L \in {1800, 1200, 900, 600, 300, 120, 60, 30, 10, 5} :
              /\ (\E t \in mine : t.interval = L) <=> (ms > L * 1000)
              /\ \A t, u \in mine : (t.interval = L /\ u.interval = L) => t = u
         /\ \A t \in mine :
              /\ t.interval \in {1800, 1200, 900, 600, 300, 120, 60, 30, 10, 5}
              /\ t.due = cascades[c].eventTime - t.interval * 1000
         /\ ms = 40000 => {t.interval : t \in mine} = {30, 10, 5}

\* an event exactly 5 s away: no lead-time timer, only the terminal one
C4_Witness ==
  \E c \in DOMAIN cascades :
    /\ cascades[c].eventTime - cascades[c].armedAt = 5000
    /\ \E t \in timers : t.cas = c /\ t.kind = "terminal"

\* ---------------------------------------------------------------------- C5
\* C5: a sendCommand call made while the transport is not open raises
\* nothing, transmits no frame and leaves the pending-callback map and the
\* identifier counter as they were, with or without a reply handler.
C5_SendWhileNotOpen ==
  [][(nSends' = nSends + 1 /\ wsState # "OPEN")
       => /\ sent' = sent
          /\ callbacks' = callbacks
          /\ lastIdentifier' = lastIdentifier
          /\ invoked' = invoked
          /\ crashed' = crashed]_vars

\* two sends were refused after the transport had closed
C5_Witness ==
  /\ wsState = "CLOSED"
  /\ nSends = 2
  /\ sent = <<>>
  /\ \E i, j \in 1..Len(log) :
       /\ i < j
       /\ log[i].text = "WebSocket not open. Cannot send: status"
       /\ log[j].text = "WebSocket not open. Cannot send: status"

\* ---------------------------------------------------------------------- C6
\* the close or the error handler has run
Dropped ==
  \E i \in 1..Len(log) : log[i].text \in {"Connection closed", "Connection error"}

\* C6: once the transport has closed or reported an error it is never open
\* again and no frame is transmitted any more, the commands of a cascade
\* still armed included.
C6_NoReconnect ==
  [][Dropped => (wsState # "OPEN" /\ wsState' # "OPEN" /\ sent' = sent)]_vars

\* a cascade sent its save command, the transport dropped, and the restart
\* timer ran without transmitting
C6_Witness ==
  /\ Dropped
  /\ \E c \in DOMAIN cascades :
       /\ cascades[c].termOpen
       /\ cascades[c].restartFired /\ ~cascades[c].restartOpen
       /\ \A i \in 1..Len(sent) : sent[i].Message # "restart 0"

\* ---------------------------------------------------------------------- C7
WithHandler == SelectSeq(sent, LAMBDA f : f.withCb)

\* C7: the accepted sends that carry a reply handler get identifiers that
\* strictly increase in send order (so they are pairwise distinct), all
\* above 1000, the first being 1001.
C7_Identifiers ==
  /\ \A i \in 1..Len(WithHandler) : WithHandler[i].Identifier > 1000
  /\ \A i, j \in 1..Len(WithHandler) :
       i < j => WithHandler[i].Identifier < WithHandler[j].Identifier
  /\ WithHandler # <<>> => WithHandler[1].Identifier = 1001

\* two sends with handlers, a reply handled for one of them
C7_Witness ==
  /\ Len(WithHandler) >= 2
  /\ Len(invoked) >= 1
  /\ DOMAIN callbacks # {}

\* ---------------------------------------------------------------------- C8
\* C8: an inbound frame whose identifier is above 1000 and is not a key of
\* the pending-callback map (never issued, or already answered) invokes no
\* handler and leaves the map and the counter as they were.
C8_UnknownReply ==
  [][(nRecv' = nRecv + 1 /\ lastFrame'.kind = "obj" /\ lastFrame'.hasId
        /\ lastFrame'.id > 1000 /\ lastFrame'.id \notin DOMAIN callbacks)
       => /\ invoked' = invoked
          /\ callbacks' = callbacks
          /\ lastIdentifier' = lastIdentifier
          /\ crashed' = crashed]_vars

\* a reply with an identifier the counter has not reached, while an entry
\* is pending
C8_Witness ==
  /\ nRecv > 0
  /\ lastFrame.kind = "obj" /\ lastFrame.hasId
  /\ lastFrame.id > lastIdentifier
  /\ DOMAIN callbacks # {}
  /\ invoked = <<>>

\* ---------------------------------------------------------------------- C9
C9_Reply ==
  (nRecv' = nRecv + 1 /\ lastFrame'.kind = "obj" /\ lastFrame'.hasId
     /\ lastFrame'.id > 1000 /\ lastFrame'.id \in DOMAIN callbacks)
    => /\ invoked' = Append(invoked, [handler |-> callbacks[lastFrame'.id],
                                      message |-> lastFrame'])
       /\ DOMAIN callbacks' = DOMAIN callbacks \ {lastFrame'.id}
       /\ \A i \in DOMAIN callbacks' : callbacks'[i] = callbacks[i]

C9_Once ==
  /\ \A i, j \in 1..Len(invoked) :
       i # j => invoked[i].message.id # invoked[j].message.id
  /\ \A i \in 1..Len(invoked) : invoked[i].message.id \notin DOMAIN callbacks
  /\ DOMAIN callbacks \cup {invoked[i].message.id : i \in 1..Len(invoked)}
       = 1001 .. lastIdentifier

C10_Original ==
  [][(nRecv' = nRecv + 1
        /\ (lastFrame'.kind # "obj" \/ ~lastFrame'.hasId \/ lastFrame'.id <= 1000))
       => /\ ~crashed'
          /\ invoked' = invoked
          /\ callbacks' = callbacks
          /\ lastIdentifier' = lastIdentifier]_vars

\* --------------------------------------------------------------------- C11
\* the terminal timer of cascade c runs in this step
TerminalRuns(c) ==
  /\ c \in DOMAIN cascades
  /\ \E t \in timers : t.cas = c /\ t.kind = "terminal" /\ t \notin timers'
  /\ nRecv' = nRecv

C11_Terminal ==
  \A c \in DOMAIN cascades :
    TerminalRuns(c) =>
      /\ ~crashed'
      /\ cascades'[c].termFired
      /\ \E t \in timers' : t.cas = c /\ t.kind = "restart" /\ t.due = now + 2000
      /\ sent' = IF wsState = "OPEN"
                   THEN sent \o <<[Identifier |-> -1, Name |-> "NodeRcon", cas |-> c,
                                   withCb |-> FALSE,
                                   Message |-> "say [Notification] Restarting now..."],
                                  [Identifier |-> -1, Name |-> "NodeRcon", cas |-> c,
                                   withCb |-> FALSE, Message |-> "server.save"]>>
                   ELSE sent
      /\ posted' # posted => webhook # "none"
      /\ webhook = "valid" => posted' = posted + 1

C11_Restart ==
  \A c \in DOMAIN cascades :
    (cascades[c].restartFired /\ cascades[c].termOpen /\ cascades[c].restartOpen)
      => TermSeqSent(c)

\* C11: whatever the webhook setting (none, a valid URL, an invalid URL)
\* and whatever becomes of the request, the terminal timer raises nothing,
\* sends "Restarting now..." and the save command and arms the restart
\* timer 2000 ms ahead, and the restart command follows; a notification is
\* dispatched only when a webhook is configured.
C11_Webhook ==
  /\ [][C11_Terminal]_vars
  /\ []C11_Restart
  /\ [](posted > 0 => webhook # "none")

\* the webhook URL was invalid, or the request failed after dispatch, and
\* the cascade still sent its three commands
C11_Witness ==
  /\ \E i \in 1..Len(log) :
       log[i].text \in {"Failed to send Discord notification", "Discord webhook error"}
  /\ \E c \in DOMAIN cascades : cascades[c].restartFired /\ TermSeqSent(c)

\* --------------------------------------------------------------------- C12
\* the log lines with the given text
LinesOf(text) == {i \in 1..Len(log) : log[i].text = text}

\* C12, as stated: the line saying that the restart executed is written
\* only after the restart command of that cascade has been issued - there
\* are never more such lines than cascades whose restart timer has called
\* restartServer.
C12_Original ==
  Cardinality(LinesOf("Executed restart"))
    <= Cardinality({c \in DOMAIN cascades : cascades[c].restartFired})

\* --------------------------------------------------------------------- C13
\* the hour and the minute a zero-padded HH:MM names, read off its digits
HourNamed(str) == DigitValue[str[1]] * 10 + DigitValue[str[2]]

MinuteNamed(str) == DigitValue[str[4]] * 10 + DigitValue[str[5]]

\* today's instant at that time of day, seen from the instant t
TodayAt(str, t) ==
  (t - (t % 86400000)) + HourNamed(str) * 3600000 + MinuteNamed(str) * 60000

\* C13: for a zero-padded HH:MM and any current time, getNextRestartTime
\* returns an instant strictly after now whose UTC hour and minute are
\* those named and whose seconds are zero; when today's instant at HH:MM
\* equals now exactly, the result is that instant plus exactly 24 hours.
C13_NextRestart ==
  nextOut # -1 =>
    /\ nextOut > now
    /\ (nextOut % 86400000) \div 3600000 = HourNamed(cfgTime)
    /\ (nextOut % 3600000) \div 60000 = MinuteNamed(cfgTime)
    /\ nextOut % 60000 = 0
    /\ TodayAt(cfgTime, now) = now => nextOut = now + 86400000

\* the call was made at the very instant of 23:59 UTC
C13_Witness ==
  /\ nextOut # -1
  /\ cfgTime = <<"2", "3", ":", "5", "9">>
  /\ now = TodayAt(cfgTime, now)
  /\ nextOut = now + 86400000

\* --------------------------------------------------------------------- C14
\* the rendering of s seconds, as the rule words it
Rendered(s) ==
  IF s < 60
    THEN IF s = 1 THEN "1 second" ELSE ToString(s) \o " seconds"
    ELSE LET m == s \div 60
             r == s % 60
             head == ToString(m) \o (IF m = 1 THEN " minute" ELSE " minutes")
             tail == IF r > 0
                       THEN " and " \o ToString(r)
                              \o (IF r = 1 THEN " second" ELSE " seconds")
                       ELSE ""
         IN head \o tail

\* C14: formatTime renders s < 60 as "1 second" for s = 1 and "{s}
\* seconds" otherwise, and s >= 60 as "{m} minute(s)", singular only for
\* m = 1, followed by " and {r} second(s)", singular only for r = 1,
\* exactly when r = s mod 60 is above 0; 5, 1, 90, 120 and 61 give "5
\* seconds", "1 second", "1 minute and 30 seconds", "2 minutes" and "1
\* minute and 1 second".
C14_FormatTime ==
  fmtOut # "" =>
    /\ fmtOut = Rendered(fmtArg)
    /\ fmtArg = 5 => fmtOut = "5 seconds"
    /\ fmtArg = 1 => fmtOut = "1 second"
    /\ fmtArg = 90 => fmtOut = "1 minute and 30 seconds"
    /\ fmtArg = 120 => fmtOut = "2 minutes"
    /\ fmtArg = 61 => fmtOut = "1 minute and 1 second"
    /\ fmtArg = 0 => fmtOut = "0 seconds"
    /\ fmtArg = 1800 => fmtOut = "30 minutes"

\* 61 seconds have been rendered
C14_Witness == fmtArg = 61 /\ fmtOut = "1 minute and 1 second"

\* --------------------------------------------------------------------- C15
\* the announcement timer t runs in this step
AnnounceRuns(t) ==
  /\ t \in timers
  /\ t.kind = "announce"
  /\ t \notin timers'
  /\ nRecv' = nRecv

C15_Fire ==
  \A t \in timers :
    AnnounceRuns(t) =>
      LET L == t.interval
          remaining == cascades[t.cas].eventTime - now
          frame == [Identifier |-> -1, Name |-> "NodeRcon", cas |-> t.cas,
                    withCb |-> FALSE, Message |-> AnnText(L)]
      IN /\ IF remaining >= (L - 1) * 1000
              THEN /\ sent' = IF wsState = "OPEN" THEN Append(sent, frame) ELSE sent
                   /\ Len(log') > Len(log)
                   /\ log'[Len(log')] =
                        [level |-> "info",
                         text |-> "Announced: Daily restart in " \o formatTime(L)]
              ELSE sent' = sent /\ log' = log
         /\ now > t.due + 1000 => (sent' = sent /\ log' = log)
         /\ now <= t.due + 1000 => log' # log
         /\ timers' = timers \ {t}

\* C15: when the announcement timer of lead time L runs, the announcement
\* "Daily restart in {formatted L}" is emitted and logged if and only if
\* the time left until the event is at least L - 1 seconds; a timer that
\* runs more than one second late sends and logs nothing, and no timer is
\* armed in its place.
C15_Guard == [][C15_Fire]_vars

\* the 10-second announcement went out; the 5-second timer ran 1001 ms
\* late and was skipped; the terminal timer is still pending
C15_Witness ==
  \E c \in DOMAIN cascades :
    /\ cascades[c].eventTime - cascades[c].armedAt = 10001
    /\ wsState = "OPEN"
    /\ \A t \in timers : t.cas = c => t.kind = "terminal"
    /\ \E t \in timers : t.cas = c
    /\ LinesOf("Announced: Daily restart in 10 seconds") # {}
    /\ LinesOf("Announced: Daily restart in 5 seconds") = {}
    /\ \E i \in 1..Len(sent) : sent[i].Message = AnnText(10)
    /\ \A i \in 1..Len(sent) : sent[i].Message # AnnText(5)

\* --------------------------------------------------------------------- C16
C16_Keys ==
  /\ \A k \in DOMAIN callbacks : k \in 1001 .. lastIdentifier
  /\ lastIdentifier >= 1000

C16_Counter == lastIdentifier' >= lastIdentifier

\* C16: in every reachable state of a channel every key of the
\* pending-callback map is an integer in 1001..lastIdentifier, and the
\* counter lastIdentifier never decreases and is never below 1000.
C16_IssuedKeys == []C16_Keys /\ [][C16_Counter]_vars

\* two identifiers were issued, one entry was answered and removed, the
\* other is pending
C16_Witness ==
  /\ lastIdentifier = 1002
  /\ Cardinality(DOMAIN callbacks) = 1
  /\ Len(invoked) = 1

\* --------------------------------------------------------------------- C17
\* the frames transmitted in this step
NewFrames == {sent'[i] : i \in (Len(sent) + 1) .. Len(sent')}

C17_Step ==
  /\ \A f \in NewFrames :
       /\ ~f.withCb => f.Identifier = -1
       /\ f.withCb =>
            /\ lastIdentifier' = lastIdentifier + 1
            /\ f.Identifier = lastIdentifier'
            /\ f.Identifier \notin DOMAIN callbacks
            /\ f.Identifier \in DOMAIN callbacks'
       /\ (IsAnn(f) \/ IsTerminalFrame(f) \/ f.cas # 0) => ~f.withCb
  /\ (\A f \in NewFrames : ~f.withCb)
       => (callbacks' = callbacks /\ lastIdentifier' = lastIdentifier)
  /\ (timers' # timers \/ cascades' # cascades) => callbacks' = callbacks

C17_Entries ==
  \A k \in DOMAIN callbacks :
    \E i \in 1..Len(sent) :
      sent[i].withCb /\ sent[i].Identifier = k /\ sent[i].cas = 0

\* C17: a send without a reply handler - every announce, save and restart
\* command is one - carries the identifier -1 and leaves the
\* pending-callback map and the counter as they were; a send with a handler
\* has its handler in the map, under the identifier just issued, when its
\* frame is transmitted; so no step of a cascade adds an entry to the map.
C17_FireAndForget == [][C17_Step]_vars /\ []C17_Entries

\* a cascade has sent its restart command on a channel on which one send
\* with a handler and one without were made as well
C17_Witness ==
  /\ \E i \in 1..Len(sent) : sent[i].cas # 0 /\ sent[i].Message = "restart 0"
  /\ \E i \in 1..Len(sent) : sent[i].cas = 0 /\ sent[i].withCb
  /\ \E i \in 1..Len(sent) : sent[i].cas = 0 /\ ~sent[i].withCb
  /\ DOMAIN callbacks = {1001}

\* --------------------------------------------------------------------- C18
\* C18: getNextRestartTime returns the earliest instant strictly after now
\* at the configured UTC time of day: never more than 24 hours after now,
\* today's instant when that is still to come, tomorrow's only when
\* today's is at or before now.
C18_Earliest ==
  nextOut # -1 =>
    LET today == TodayAt(cfgTime, now)
    IN /\ 0 < nextOut - now /\ nextOut - now <= 86400000
       /\ today > now => nextOut = today
       /\ today <= now => nextOut = today + 86400000
       /\ \A k \in -1..2 :
            today + k * 86400000 > now => nextOut <= today + k * 86400000

\* today's instant is one millisecond ahead and is the one returned
C18_Witness ==
  /\ nextOut # -1
  /\ TodayAt(cfgTime, now) = now + 1
  /\ nextOut = now + 1

\* --------------------------------------------------------------------- C19
\* the timers created in this step
NewTimers == timers' \ timers

\* the frames of cascade c that carry the command cmd
Commands(c, cmd) == {i \in 1..Len(sent) : sent[i].cas = c /\ sent[i].Message = cmd}

\* an arm call is made in this step
ArmCall == Len(cascades') = Len(cascades) + 1

C19_AfterArm ==
  /\ \A c \in DOMAIN cascades' :
       TerminalRuns(c) =>
         /\ \A t \in NewTimers : t.cas = c /\ t.kind = "restart"
         /\ Cardinality(NewTimers) = 1
  /\ (~ArmCall /\ ~\E c \in DOMAIN cascades : TerminalRuns(c)) => NewTimers = {}

C19_Commands ==
  /\ \A c \in DOMAIN cascades :
       /\ Cardinality(Commands(c, "restart 0")) <= 1
       /\ Cardinality(Commands(c, "server.save")) <= 1
  /\ Cardinality({i \in 1..Len(sent) : sent[i].Message = "restart 0"})
       <= Len(cascades)

\* C19, as stated: every arm call arms at most ten announcement timers and
\* exactly one terminal timer; the terminal action arms exactly one
\* restart timer and no other step arms a timer; each arm call leads to at
\* most one restart and one save command, and the restart commands on the
\* channel never outnumber the arm calls.
C19_Original ==
  /\ [][ArmCall =>
          /\ Cardinality({t \in NewTimers : t.kind = "announce"}) <= 10
          /\ Cardinality({t \in NewTimers : t.kind = "terminal"}) = 1]_vars
  /\ [][C19_AfterArm]_vars
  /\ []C19_Commands

\* C19, amended: an arm call for an instant after the arm time arms at
\* most ten announcement timers and exactly one terminal timer, an arm call
\* for any other instant arms no timer; the terminal action arms exactly
\* one restart timer and no other step arms a timer; each arm call leads
\* to at most one restart and one save command, and the restart commands
\* on the channel never outnumber the arm calls.
C19_OneShot ==
  /\ [][ArmCall =>
          LET c == Len(cascades')
          IN /\ \A t \in NewTimers : t.cas = c /\ t.kind \in {"announce", "terminal"}
             /\ Cardinality({t \in NewTimers : t.kind = "announce"}) <= 10
             /\ Cardinality({t \in NewTimers : t.kind = "terminal"})
                  = IF cascades'[c].eventTime > now THEN 1 ELSE 0
             /\ cascades'[c].eventTime <= now => NewTimers = {}]_vars
  /\ [][C19_AfterArm]_vars
  /\ []C19_Commands

\* a cascade has run to its end: its save and its restart command were
\* transmitted once each and no timer is left
C19_Witness ==
  /\ timers = {}
  /\ \E c \in DOMAIN cascades :
       /\ cascades[c].restartFired
       /\ Cardinality(Commands(c, "restart 0")) = 1
       /\ Cardinality(Commands(c, "server.save")) = 1

\* --------------------------------------------------------------------- C20
\* the frames that carry the command cmd
FramesOf(cmd) == {i \in 1..Len(sent) : sent[i].Message = cmd}

\* C20, as stated: an "Announced: ..." line for a lead time is written only
\* if the announcement frame of that lead time was transmitted, and the
\* line "Executed restart" only if the restart command was transmitted,
\* whatever the state of the transport when the timer runs - there are
\* never more such lines than such frames.
C20_Original ==
  /\ \A L \in Range(intervals) :
       Cardinality(LinesOf("Announced: Daily restart in " \o formatTime(L)))
         <= Cardinality(FramesOf(AnnText(L)))
  /\ Cardinality(LinesOf("Executed restart")) <= Cardinality(FramesOf("restart 0"))

====
